---- MODULE Spec2Model ----
(***************************************************************************)
(* Model of homeassistant/components/camera/webrtc.py: the WebRTC provider *)
(* registry, the refresh broadcast it schedules, provider selection and    *)
(* the ICE server registry.                                                *)
(*                                                                         *)
(* Scheduling is asyncio's: synchronous code runs without interruption, a  *)
(* coroutine can be interleaved with others only where it awaits something *)
(* that suspends.  Every action below is one such uninterruptible stretch. *)
(***************************************************************************)
EXTENDS Integers, Sequences, FiniteSets, TLC

VARIABLES
    hass_data,   \* hass.data: a dict, here a function whose DOMAIN is the keys present
    slot,        \* hash-table slot of every provider object (fixed by its id())
    tokens,      \* the remove_provider closures returned so far: the provider each captured
    ice_tokens,  \* the remove closures returned by register_ice_server: the factory each captured
    tasks,       \* the broadcast tasks the event loop holds, in creation order
    sel,         \* the async_get_supported_providers coroutine in flight
    last,        \* the most recent call of the registration API and its outcome
    quiet,       \* observer: no broadcast task has started since that call
    reg_order,   \* observer: providers in the order of the registration that put them in the set
    ice_removed, \* observer: per factory, the remove calls that returned without raising
    legacy,      \* a call of _CameraRtspToWebRTCProvider.async_is_supported and its result
    offer,       \* a call of _CameraRtspToWebRTCProvider.async_handle_web_rtc_offer
    ws,          \* a call of the websocket command ws_get_config and what it sent
    views,       \* per camera entity, the providers its last completed refresh recorded
    refreshes    \* the Camera.async_refresh_providers coroutines the event loop holds

vars == <<hass_data, slot, tokens, ice_tokens, tasks, sel, last, quiet,
          reg_order, ice_removed, legacy, offer, ws, views, refreshes>>

-----------------------------------------------------------------------------
(* Bounds of the model *)

MaxTokens == 2      \* provider registrations that returned a token
MaxTasks == 2       \* broadcast tasks held by the event loop at one time
MaxIceTokens == 3   \* register_ice_server calls that returned a token
MaxJoint == 2       \* registrations of both registries together, where both are explored
MaxJointTasks == 1  \* broadcast tasks at one time, where both registries are explored
MaxServers == 2     \* ICE servers in one RTCConfiguration
MaxRefreshes == 2   \* camera refreshes the event loop holds at one time

-----------------------------------------------------------------------------
(* Keys of hass.data *)

CAMERA_DOMAIN == "camera"
DATA_WEBRTC_PROVIDERS == "camera_web_rtc_providers"
DATA_ICE_SERVERS == "camera_web_rtc_ice_servers"

(* Strings the code inspects character by character are sequences of characters *)
RTSP_PREFIXES ==
    { <<"r","t","s","p",":","/","/">>,
      <<"r","t","s","p","s",":","/","/">>,
      <<"r","t","m","p",":","/","/">> }

-----------------------------------------------------------------------------
(* The objects the callers pass in *)

\* Providers implementing the CameraWebRTCProvider protocol themselves
GenericProviders == { [kind |-> "generic", id |-> "p"], [kind |-> "generic", id |-> "q"] }

\* The instances async_register_rtsp_to_web_rtc_provider creates, one per call
LegacyProviders == { [kind |-> "legacy", id |-> "a"] }

AllProviders == GenericProviders \cup LegacyProviders

\* get_ice_server_fn callables
Factories == { "f", "g" }

SRC_RTSP == <<"r","t","s","p",":","/","/","h">>
SRC_HTTP == <<"h","t","t","p",":","/","/","h">>
StreamSources == { SRC_RTSP, SRC_HTTP }

Range(s) == { s[i] : i \in 1..Len(s) }

Permutations_(S) == { f \in [S -> 1..Cardinality(S)] : \A a, b \in S : f[a] = f[b] => a = b }

-----------------------------------------------------------------------------
(* Python's dict, set and list operations, and the event loop's create_task *)

Has(d, key) == key \in DOMAIN d

dict_setdefault(d, key, default) == IF Has(d, key) THEN d ELSE d @@ (key :> default)

\* Variant: the registration stores a new set holding only the new provider
set_replace(s, x) == {x}

set_add(s, x) == s \cup {x}

set_discard(s, x) == s \ {x}

list_append(l, x) == Append(l, x)

\* Variant: every equal element is deleted
list_remove_all(l, x) == SelectSeq(l, LAMBDA e : e # x)

\* list.remove(x): deletes the first element equal to x, scanning from the head
RECURSIVE list_remove(_, _)
list_remove(l, x) ==
    IF l = <<>> THEN <<>>
    ELSE IF Head(l) = x THEN Tail(l)
    ELSE <<Head(l)>> \o list_remove(Tail(l), x)

\* Variant: the coroutine is awaited to its end in place, and no task is left
await_in_place(ts) == ts

\* hass.async_create_task(_async_refresh_providers(hass)): the task is created, not awaited
async_create_task(ts) == Append(ts, [status |-> "scheduled", pending |-> {}])

\* A call as its caller sees it: the entry point, the argument (the provider or the
\* factory passed in or captured), the exception raised; and as an observer sees
\* it: whether the registry held the argument when the call was made, and whether
\* the call was a token's invocation right after the registration that returned
\* it, before any broadcast task started
Call(op, provider, factory, exc, held, immediate) ==
    [op |-> op, provider |-> provider, factory |-> factory, exc |-> exc,
     held |-> held, immediate |-> immediate]

NoCall == Call("none", {}, {}, "none", FALSE, FALSE)

Providers == IF Has(hass_data, DATA_WEBRTC_PROVIDERS) THEN hass_data[DATA_WEBRTC_PROVIDERS] ELSE {}

Servers == IF Has(hass_data, DATA_ICE_SERVERS) THEN hass_data[DATA_ICE_SERVERS] ELSE <<>>

-----------------------------------------------------------------------------
(* The camera component's setup puts the component, with its entities, under DOMAIN *)

async_setup(entities) ==
    /\ ~Has(hass_data, CAMERA_DOMAIN)
    /\ hass_data' = hass_data @@ (CAMERA_DOMAIN :> [entities |-> entities])
    /\ views' = [camera \in entities |-> <<>>]
    /\ UNCHANGED <<slot, tokens, ice_tokens, tasks, sel, last, quiet, reg_order,
                   ice_removed, legacy, offer, ws, refreshes>>

-----------------------------------------------------------------------------
(* Provider registry *)

\* Variant: a provider already in the set is not announced again
register_provider_once(op, provider) ==
    IF ~Has(hass_data, CAMERA_DOMAIN)
    THEN /\ last' = Call(op, {provider}, {}, "ValueError", FALSE, FALSE)
         /\ UNCHANGED <<hass_data, slot, tokens, ice_tokens, tasks, sel, quiet,
                        reg_order, ice_removed, legacy,
                   offer, ws, views, refreshes>>
    ELSE /\ LET d == dict_setdefault(hass_data, DATA_WEBRTC_PROVIDERS, {})
            IN hass_data' = [d EXCEPT ![DATA_WEBRTC_PROVIDERS] = set_add(@, provider)]
         /\ tasks' = IF provider \in Providers THEN tasks ELSE async_create_task(tasks)
         /\ tokens' = Append(tokens, provider)
         /\ last' = Call(op, {provider}, {}, "none", provider \in Providers, FALSE)
         /\ quiet' = TRUE
         /\ reg_order' = IF provider \in Range(reg_order) THEN reg_order
                         ELSE Append(reg_order, provider)
         /\ UNCHANGED <<slot, ice_tokens, sel, ice_removed, legacy,
                   offer, ws, views, refreshes>>

\* Body of async_register_webrtc_provider, op naming the entry point called
register_provider(op, provider) ==
    IF ~Has(hass_data, CAMERA_DOMAIN)
    THEN \* raise ValueError("Unexpected state, camera not loaded")
         /\ last' = Call(op, {provider}, {}, "ValueError", FALSE, FALSE)
         /\ UNCHANGED <<hass_data, slot, tokens, ice_tokens, tasks, sel, quiet,
                        reg_order, ice_removed, legacy,
                   offer, ws, views, refreshes>>
    ELSE /\ LET d == dict_setdefault(hass_data, DATA_WEBRTC_PROVIDERS, {})
            IN hass_data' = [d EXCEPT ![DATA_WEBRTC_PROVIDERS] = set_add(@, provider)]
         /\ tasks' = async_create_task(tasks)
         /\ tokens' = Append(tokens, provider)
         /\ last' = Call(op, {provider}, {}, "none", provider \in Providers, FALSE)
         /\ quiet' = TRUE
         /\ reg_order' = IF provider \in Range(reg_order) THEN reg_order
                         ELSE Append(reg_order, provider)
         /\ UNCHANGED <<slot, ice_tokens, sel, ice_removed, legacy,
                   offer, ws, views, refreshes>>

async_register_webrtc_provider(provider) ==
    register_provider("async_register_webrtc_provider", provider)

\* provider_instance is a new object at every call
async_register_rtsp_to_web_rtc_provider(provider_instance) ==
    /\ provider_instance \notin Range(tokens)
    /\ register_provider("async_register_rtsp_to_web_rtc_provider", provider_instance)

\* What remove_provider records of itself
Removal(t) ==
    Call("remove_provider", {tokens[t]}, {}, "none", tokens[t] \in Providers,
         /\ last.op \in {"async_register_webrtc_provider",
                         "async_register_rtsp_to_web_rtc_provider"}
         /\ last.exc = "none"
         /\ last.provider = {tokens[t]}
         /\ t = Len(tokens)
         /\ quiet)

\* Variant: the token leaves the set alone while the registration's own broadcast
\* has not started, expecting that broadcast to find the provider
remove_provider_late(t) ==
    LET provider == tokens[t] IN
    /\ hass_data' = [hass_data EXCEPT ![DATA_WEBRTC_PROVIDERS] =
                         IF Removal(t).immediate THEN @ ELSE set_discard(@, provider)]
    /\ tasks' = async_create_task(tasks)
    /\ last' = Removal(t)
    /\ quiet' = TRUE
    /\ reg_order' = SelectSeq(reg_order, LAMBDA q : q # provider)
    /\ UNCHANGED <<slot, tokens, ice_tokens, sel, ice_removed, legacy,
                   offer, ws, views, refreshes>>

\* Variant: set.remove in place of set.discard, which raises KeyError for an
\* absent element
remove_provider_strict(t) ==
    LET provider == tokens[t] IN
    IF provider \notin Providers
    THEN /\ last' = [Removal(t) EXCEPT !.exc = "KeyError"]
         /\ UNCHANGED <<hass_data, slot, tokens, ice_tokens, tasks, sel, quiet,
                        reg_order, ice_removed, legacy,
                   offer, ws, views, refreshes>>
    ELSE /\ hass_data' = [hass_data EXCEPT ![DATA_WEBRTC_PROVIDERS] = set_discard(@, provider)]
         /\ tasks' = async_create_task(tasks)
         /\ last' = Removal(t)
         /\ quiet' = TRUE
         /\ reg_order' = SelectSeq(reg_order, LAMBDA q : q # provider)
         /\ UNCHANGED <<slot, tokens, ice_tokens, sel, ice_removed, legacy,
                   offer, ws, views, refreshes>>

\* Variant: membership is counted per registration, so a token takes the provider
\* out only when no other registration of it returned a token
remove_provider_counted(t) ==
    LET provider == tokens[t] IN
    /\ hass_data' = [hass_data EXCEPT ![DATA_WEBRTC_PROVIDERS] =
                         IF \E u \in 1..Len(tokens) : u # t /\ tokens[u] = provider
                         THEN @ ELSE set_discard(@, provider)]
    /\ tasks' = async_create_task(tasks)
    /\ last' = Removal(t)
    /\ quiet' = TRUE
    /\ reg_order' = SelectSeq(reg_order, LAMBDA q : q # provider)
    /\ UNCHANGED <<slot, tokens, ice_tokens, sel, ice_removed, legacy,
                   offer, ws, views, refreshes>>

\* The closure returned by the t-th successful registration
remove_provider(t) ==
    LET provider == tokens[t] IN
    /\ hass_data' = [hass_data EXCEPT ![DATA_WEBRTC_PROVIDERS] = set_discard(@, provider)]
    /\ tasks' = async_create_task(tasks)
    /\ last' = Removal(t)
    /\ quiet' = TRUE
    /\ reg_order' = SelectSeq(reg_order, LAMBDA q : q # provider)
    /\ UNCHANGED <<slot, tokens, ice_tokens, sel, ice_removed, legacy,
                   offer, ws, views, refreshes>>

-----------------------------------------------------------------------------
(* Capability checks *)

Lower(c) ==
    CASE c = "R" -> "r" [] c = "T" -> "t" [] c = "S" -> "s" [] c = "P" -> "p"
      [] c = "M" -> "m" [] OTHER -> c

\* Variant: the comparison ignores case
startswith_nocase(s, prefix) ==
    /\ Len(s) >= Len(prefix)
    /\ [i \in 1..Len(prefix) |-> Lower(s[i])] = prefix

\* str.startswith
startswith(s, prefix) ==
    /\ Len(s) >= Len(prefix)
    /\ SubSeq(s, 1, Len(prefix)) = prefix

\* _CameraRtspToWebRTCProvider.async_is_supported: it awaits nothing
legacy_is_supported(stream_source) ==
    \E prefix \in RTSP_PREFIXES : startswith(stream_source, prefix)

\* What the providers of the integrations answer: the first takes every source,
\* the second every source that is not http
generic_is_supported(provider, stream_source) ==
    \/ provider.id = "p"
    \/ ~startswith(stream_source, <<"h","t","t","p">>)

is_supported(provider, stream_source) ==
    IF provider.kind = "legacy" THEN legacy_is_supported(stream_source)
    ELSE generic_is_supported(provider, stream_source)

-----------------------------------------------------------------------------
(* Selection: async_get_supported_providers *)

Idle ==
    [state |-> "idle", source |-> <<>>, si_used |-> 0, pos |-> 1, cur |-> {},
     result |-> <<>>, visited |-> {}, snapshot |-> {}, order |-> <<>>]

\* The comprehension's loop over the set iterator, from one suspension to the next.
\* s is the set as it is now, r the coroutine's frame.  next() on a set iterator
\* raises RuntimeError when the set's size is not the size it had at iter(), else
\* yields the entry in the first occupied slot at or after its position.
RECURSIVE iterate(_, _)
iterate(s, r) ==
    IF Cardinality(s) # r.si_used
    THEN [r EXCEPT !.state = "raised", !.cur = {}]
    ELSE LET rest == { q \in s : slot[q] >= r.pos } IN
         IF rest = {}
         THEN [r EXCEPT !.state = "returned", !.cur = {}]
         ELSE LET provider == CHOOSE q \in rest : \A o \in rest : slot[q] <= slot[o]
                  at == [r EXCEPT !.pos = slot[provider] + 1,
                                  !.visited = @ \cup {provider}]
              IN IF provider.kind = "legacy"
                 THEN iterate(s, [at EXCEPT !.result =
                                     IF legacy_is_supported(r.source)
                                     THEN Append(@, provider) ELSE @])
                 ELSE [at EXCEPT !.state = "awaiting", !.cur = {provider}]

\* Variant: setdefault in place of get, which stores the empty set it falls back to
async_get_supported_providers_storing(stream_source) ==
    /\ sel.state # "awaiting"
    /\ sel' = iterate(Providers,
                      [Idle EXCEPT !.source = stream_source,
                                   !.si_used = Cardinality(Providers),
                                   !.snapshot = Providers,
                                   !.order = reg_order])
    /\ hass_data' = dict_setdefault(hass_data, DATA_WEBRTC_PROVIDERS, {})
    /\ UNCHANGED <<slot, tokens, ice_tokens, tasks, last, quiet,
                   reg_order, ice_removed, legacy,
                   offer, ws, views, refreshes>>

\* The call: hass.data.get(DATA_WEBRTC_PROVIDERS, set()), iter() on it, and the loop
\* up to the first capability check that suspends
async_get_supported_providers(stream_source) ==
    /\ sel.state # "awaiting"
    /\ sel' = iterate(Providers,
                      [Idle EXCEPT !.source = stream_source,
                                   !.si_used = Cardinality(Providers),
                                   !.snapshot = Providers,
                                   !.order = reg_order])
    /\ UNCHANGED <<hass_data, slot, tokens, ice_tokens, tasks, last, quiet,
                   reg_order, ice_removed, legacy,
                   offer, ws, views, refreshes>>

\* The awaited async_is_supported of a generic provider returns and the loop goes on
is_supported_returns ==
    /\ sel.state = "awaiting"
    /\ \E provider \in sel.cur :
         sel' = iterate(Providers,
                        [sel EXCEPT !.result =
                            IF generic_is_supported(provider, sel.source)
                            THEN Append(@, provider) ELSE @])
    /\ UNCHANGED <<hass_data, slot, tokens, ice_tokens, tasks, last, quiet,
                   reg_order, ice_removed, legacy,
                   offer, ws, views, refreshes>>

-----------------------------------------------------------------------------
(* The refresh broadcast and the cameras' refreshes *)

\* The stream source each camera entity resolves to
camera_stream_source(camera) == IF camera = "camera.front" THEN SRC_RTSP ELSE SRC_HTTP

\* The elements of a set, one after the other
RECURSIVE SetToSeq(_)
SetToSeq(S) ==
    IF S = {} THEN <<>>
    ELSE LET x == CHOOSE y \in S : TRUE IN <<x>> \o SetToSeq(S \ {x})

\* What asyncio.gather makes of camera.async_refresh_providers() for the i-th
\* task: a coroutine that has not run yet
Refresh(camera, i) == [camera |-> camera, task |-> i, frame |-> Idle]

\* The refreshes after the event loop dropped the i-th task: the tasks behind it
\* move up, and a refresh of the dropped task has no task (0) any more
Retarget(rs, i) ==
    [k \in 1..Len(rs) |->
        [rs[k] EXCEPT !.task = IF @ = i THEN 0 ELSE IF @ > i THEN @ - 1 ELSE @]]

\* A sequence without its k-th element
Without(seq, k) == SubSeq(seq, 1, k - 1) \o SubSeq(seq, k + 1, Len(seq))

\* The event loop starts a scheduled task: _async_refresh_providers runs up to the
\* await of asyncio.gather over one refresh per camera entity
start_refresh(i) ==
    /\ tasks[i].status = "scheduled"
    /\ tasks' = [tasks EXCEPT ![i] = [status |-> "running",
                                       pending |-> hass_data[CAMERA_DOMAIN].entities]]
    /\ refreshes' = refreshes \o
                      LET cameras == SetToSeq(hass_data[CAMERA_DOMAIN].entities)
                      IN  [k \in 1..Len(cameras) |-> Refresh(cameras[k], i)]
    /\ quiet' = FALSE
    /\ UNCHANGED <<hass_data, slot, tokens, ice_tokens, sel, last, reg_order,
                   ice_removed, legacy, offer, ws, views>>

\* asyncio.gather returns, the coroutine ends and the event loop drops the task
finish_refresh(i) ==
    /\ tasks[i].status = "running"
    /\ tasks[i].pending = {}
    /\ tasks' = Without(tasks, i)
    /\ refreshes' = Retarget(refreshes, i)
    /\ UNCHANGED <<hass_data, slot, tokens, ice_tokens, sel, last, quiet, reg_order,
                   ice_removed, legacy, offer, ws, views>>

\* asyncio.gather has passed on the exception of a refresh: the coroutine ends with
\* it and the event loop drops the task, whatever refreshes are still running
fail_refresh(i) ==
    /\ tasks[i].status = "failed"
    /\ tasks' = Without(tasks, i)
    /\ refreshes' = Retarget(refreshes, i)
    /\ UNCHANGED <<hass_data, slot, tokens, ice_tokens, sel, last, quiet, reg_order,
                   ice_removed, legacy, offer, ws, views>>

\* The k-th refresh has run up to frame f: it waits for a capability check, or
\* it records the providers selected and completes, or it ends with the exception
\* of the selection, which asyncio.gather passes on to the task
settle(k, f) ==
    LET camera == refreshes[k].camera
        i == refreshes[k].task
    IN
    /\ refreshes' = IF f.state = "awaiting"
                    THEN [refreshes EXCEPT ![k].frame = f]
                    ELSE Without(refreshes, k)
    /\ views' = IF f.state = "returned"
                THEN [views EXCEPT ![camera] = f.result]
                ELSE views
    /\ tasks' = IF i = 0 \/ f.state = "awaiting" THEN tasks
                ELSE IF f.state = "returned"
                THEN [tasks EXCEPT ![i].pending = @ \ {camera}]
                ELSE [tasks EXCEPT ![i].status = "failed", ![i].pending = @ \ {camera}]
    /\ UNCHANGED <<hass_data, slot, tokens, ice_tokens, sel, last, quiet, reg_order,
                   ice_removed, legacy, offer, ws>>

\* Camera.async_refresh_providers starts: async_get_supported_providers on the
\* camera's stream source, up to the first capability check that suspends
async_refresh_providers(k) ==
    /\ refreshes[k].frame.state = "idle"
    /\ settle(k, iterate(Providers,
                         [Idle EXCEPT !.source = camera_stream_source(refreshes[k].camera),
                                      !.si_used = Cardinality(Providers)]))

\* The capability check a refresh waits for returns and its selection goes on
refresh_is_supported_returns(k) ==
    /\ refreshes[k].frame.state = "awaiting"
    /\ \E provider \in refreshes[k].frame.cur :
         settle(k, iterate(Providers,
                           [refreshes[k].frame EXCEPT !.result =
                               IF generic_is_supported(provider, refreshes[k].frame.source)
                               THEN Append(@, provider) ELSE @]))

-----------------------------------------------------------------------------
(* ICE server registry *)

\* Variant: the registration does not look for the camera component
register_ice_server_unchecked(get_ice_server_fn) ==
    /\ LET d == dict_setdefault(hass_data, DATA_ICE_SERVERS, <<>>)
       IN hass_data' = [d EXCEPT ![DATA_ICE_SERVERS] = list_append(@, get_ice_server_fn)]
    /\ ice_tokens' = Append(ice_tokens, get_ice_server_fn)
    /\ UNCHANGED ice_removed
    /\ last' = Call("register_ice_server", {}, {get_ice_server_fn}, "none",
                    get_ice_server_fn \in Range(Servers), FALSE)
    /\ UNCHANGED <<slot, tokens, tasks, sel, quiet, reg_order, legacy,
                   offer, ws, views, refreshes>>

register_ice_server(get_ice_server_fn) ==
    IF ~Has(hass_data, CAMERA_DOMAIN)
    THEN \* raise ValueError("Unexpected state, camera not loaded")
         /\ last' = Call("register_ice_server", {}, {get_ice_server_fn}, "ValueError",
                         FALSE, FALSE)
         /\ UNCHANGED <<hass_data, slot, tokens, ice_tokens, tasks, sel, quiet,
                        reg_order, ice_removed, legacy,
                   offer, ws, views, refreshes>>
    ELSE /\ LET d == dict_setdefault(hass_data, DATA_ICE_SERVERS, <<>>)
            IN hass_data' = [d EXCEPT ![DATA_ICE_SERVERS] = list_append(@, get_ice_server_fn)]
         /\ ice_tokens' = Append(ice_tokens, get_ice_server_fn)
         /\ UNCHANGED ice_removed
         /\ last' = Call("register_ice_server", {}, {get_ice_server_fn}, "none",
                         get_ice_server_fn \in Range(Servers), FALSE)
         /\ UNCHANGED <<slot, tokens, tasks, sel, quiet, reg_order, legacy,
                   offer, ws, views, refreshes>>

\* The closure returned by the t-th successful register_ice_server
remove(t) ==
    LET get_ice_server_fn == ice_tokens[t] IN
    IF get_ice_server_fn \notin Range(Servers)
    THEN \* list.remove raises ValueError: x not in list
         /\ last' = Call("remove", {}, {get_ice_server_fn}, "ValueError", FALSE, FALSE)
         /\ UNCHANGED <<hass_data, slot, tokens, ice_tokens, tasks, sel, quiet,
                        reg_order, ice_removed, legacy,
                   offer, ws, views, refreshes>>
    ELSE /\ hass_data' = [hass_data EXCEPT ![DATA_ICE_SERVERS] =
                              list_remove(@, get_ice_server_fn)]
         /\ ice_removed' = [ice_removed EXCEPT ![get_ice_server_fn] = @ + 1]
         /\ last' = Call("remove", {}, {get_ice_server_fn}, "none", TRUE, FALSE)
         /\ UNCHANGED <<slot, tokens, ice_tokens, tasks, sel, quiet, reg_order, legacy,
                   offer, ws, views, refreshes>>

-----------------------------------------------------------------------------
(* The legacy provider's offer handling *)

\* Python's None is the empty set and a value v is {v}
None == {}

\* What camera.stream_source() can resolve to: None, the empty string, a URL
OfferSources == { None, {<<>>}, {SRC_RTSP}, {SRC_HTTP} }

OfferSdps == { "offer_1", "offer_2" }

EntityIds == { "camera.front", "camera.back" }

\* What the wrapped RtspToWebRtcProviderType function does when awaited:
\* it returns an answer, returns None, or raises
FnOutcomes ==
    { [kind |-> "return", value |-> {"answer"}],
      [kind |-> "return", value |-> None],
      [kind |-> "raise", value |-> {"HomeAssistantError"}] }

\* No call of async_handle_web_rtc_offer yet; the fields are its inputs
NoOffer ==
    [pc |-> "idle", source |-> None, offer_sdp |-> "offer_1", entity_id |-> "camera.front",
     fn |-> [kind |-> "return", value |-> None], calls |-> <<>>, outcome |-> {}]

\* Variant: only None counts as no stream source
is_not_none(stream_source) == stream_source # None

\* Python's truth value of an optional string: None and "" are false
truthy(stream_source) == stream_source # None /\ stream_source # {<<>>}

\* The call, up to its await of camera.stream_source()
async_handle_web_rtc_offer ==
    /\ offer.pc = "idle"
    /\ offer' = [offer EXCEPT !.pc = "stream_source"]
    /\ UNCHANGED <<hass_data, slot, tokens, ice_tokens, tasks, sel, last, quiet,
                   reg_order, ice_removed, legacy, ws, views, refreshes>>

\* camera.stream_source() returns: return None, or call the wrapped function
stream_source_returns ==
    /\ offer.pc = "stream_source"
    /\ offer' = IF truthy(offer.source)
                THEN [offer EXCEPT !.pc = "fn",
                                   !.calls = Append(@, <<offer.source, offer.offer_sdp,
                                                         offer.entity_id>>)]
                ELSE [offer EXCEPT !.pc = "done",
                                   !.outcome = {[kind |-> "return", value |-> None]}]
    /\ UNCHANGED <<hass_data, slot, tokens, ice_tokens, tasks, sel, last, quiet,
                   reg_order, ice_removed, legacy, ws, views, refreshes>>

\* The wrapped function returns or raises, and so does the call
fn_returns ==
    /\ offer.pc = "fn"
    /\ offer' = [offer EXCEPT !.pc = "done", !.outcome = {offer.fn}]
    /\ UNCHANGED <<hass_data, slot, tokens, ice_tokens, tasks, sel, last, quiet,
                   reg_order, ice_removed, legacy, ws, views, refreshes>>

-----------------------------------------------------------------------------
(* RTCConfiguration, its serialization, and the websocket command ws_get_config *)

\* RTCIceServer objects: urls, and an optional username and credential
IceServers ==
    { [urls |-> urls, username |-> username, credential |-> credential] :
        urls \in { <<"stun:a">>, <<"stun:a", "turn:b">> },
        username \in { None, {"user"} },
        credential \in { None, {"secret"} } }

\* Lists of at most n elements of S
RECURSIVE ListsUpTo(_, _)
ListsUpTo(S, n) ==
    IF n = 0 THEN { <<>> }
    ELSE LET shorter == ListsUpTo(S, n - 1)
         IN  shorter \cup { Append(l, x) : l \in { k \in shorter : Len(k) = n - 1 }, x \in S }

\* RTCConfiguration objects: ice_servers is None or a list, possibly empty
RTCConfigurations ==
    { [ice_servers |-> ice_servers] :
        ice_servers \in { None } \cup { {l} : l \in ListsUpTo(IceServers, MaxServers) } }

\* The value of an optional field that is set
Value(optional) == CHOOSE v \in optional : TRUE

\* A dict with the fields of the record whose value is not None (omit_none)
omit_none(fields, keys) ==
    [k \in { key \in keys : fields[key] # None } |-> Value(fields[k])]

\* RTCIceServer as a dict: urls always, username and credential unless None
RTCIceServer_to_dict(server) ==
    omit_none([urls |-> {server.urls}, username |-> server.username,
               credential |-> server.credential],
              {"urls", "username", "credential"})

\* RTCConfiguration.to_dict(): the alias iceServers, the field left out when None
to_dict(configuration) ==
    omit_none([iceServers |->
                  IF configuration.ice_servers = None THEN None
                  ELSE LET servers == Value(configuration.ice_servers)
                       IN  { [i \in 1..Len(servers) |-> RTCIceServer_to_dict(servers[i])] }],
              {"iceServers"})

\* camera.frontend_stream_type: None or a StreamType
FrontendStreamTypes == { None, {"hls"}, {"web_rtc"} }

WEB_RTC == {"web_rtc"}

\* The text an f-string puts for a frontend_stream_type
format(stream_type) == IF stream_type = None THEN "None" ELSE Value(stream_type)

MessageIds == { 1, 2 }

\* No call of ws_get_config yet; id, stream_type and configuration are its inputs
NoRequest ==
    [pc |-> "idle", id |-> 1, stream_type |-> None,
     configuration |-> [ice_servers |-> None], sent |-> <<>>, requests |-> 0]

\* connection.send_error(msg["id"], code, message)
send_error(sent, id, code, message) ==
    Append(sent, [type |-> "error", id |-> id, code |-> code, message |-> message])

\* connection.send_result(msg["id"], result)
send_result(sent, id, result) ==
    Append(sent, [type |-> "result", id |-> id, result |-> result])

\* Variant: no return after send_error
ws_get_config_falls_through ==
    /\ ws.pc = "idle"
    /\ ws' = [ws EXCEPT !.pc = "configuration",
                        !.requests = @ + 1,
                        !.sent = IF ws.stream_type # WEB_RTC
                                 THEN send_error(@, ws.id, "web_rtc_offer_failed",
                                                 <<"Camera does not support WebRTC, frontend_stream_type=",
                                                   format(ws.stream_type)>>)
                                 ELSE @]
    /\ UNCHANGED <<hass_data, slot, tokens, ice_tokens, tasks, sel, last, quiet,
                   reg_order, ice_removed, legacy, offer, views, refreshes>>

\* The command, up to its return or its await of camera.async_get_webrtc_configuration()
ws_get_config ==
    /\ ws.pc = "idle"
    /\ ws' = IF ws.stream_type # WEB_RTC
             THEN [ws EXCEPT !.pc = "done",
                             !.sent = send_error(@, ws.id, "web_rtc_offer_failed",
                                                 <<"Camera does not support WebRTC, frontend_stream_type=",
                                                   format(ws.stream_type)>>)]
             ELSE [ws EXCEPT !.pc = "configuration", !.requests = @ + 1]
    /\ UNCHANGED <<hass_data, slot, tokens, ice_tokens, tasks, sel, last, quiet,
                   reg_order, ice_removed, legacy, offer, views, refreshes>>

\* The configuration arrives; it is serialized and sent
configuration_returns ==
    /\ ws.pc = "configuration"
    /\ ws' = [ws EXCEPT !.pc = "done",
                        !.sent = send_result(@, ws.id, to_dict(ws.configuration))]
    /\ UNCHANGED <<hass_data, slot, tokens, ice_tokens, tasks, sel, last, quiet,
                   reg_order, ice_removed, legacy, offer, views, refreshes>>

-----------------------------------------------------------------------------
(* The system *)

Init ==
    /\ hass_data = [k \in {} |-> {}]
    /\ slot \in Permutations_(AllProviders)
    /\ tokens = <<>>
    /\ ice_tokens = <<>>
    /\ tasks = <<>>
    /\ sel = Idle
    /\ last = NoCall
    /\ quiet = TRUE
    /\ reg_order = <<>>
    /\ ice_removed = [fn \in Factories |-> 0]
    /\ legacy = [source |-> <<>>, result |-> {}]
    /\ offer = NoOffer
    /\ ws = NoRequest
    /\ views = <<>>
    /\ refreshes = <<>>

\* Stream sources for the legacy provider's check: every prefix of these words,
\* alone and followed by a host
Words ==
    { <<"r","t","s","p",":","/","/">>, <<"r","t","s","p","s",":","/","/">>,
      <<"r","t","m","p",":","/","/">>, <<"h","t","t","p",":","/","/">>,
      <<"R","T","S","P",":","/","/">>, <<"R","t","s","p",":","/","/">>,
      <<"r","t","m","p","s",":","/","/">>, <<"r","t","s","p",":","/","x">>,
      <<" ","r","t","s","p",":","/","/">>, <<"r","t","p",":","/","/">> }

LegacySources ==
    UNION { { SubSeq(w, 1, n) \o tail : n \in 0..Len(w), tail \in { <<>>, <<"h">> } } :
            w \in Words }

InitLegacy ==
    /\ hass_data = [k \in {} |-> {}]
    /\ slot = CHOOSE f \in Permutations_(AllProviders) : TRUE
    /\ tokens = <<>>
    /\ ice_tokens = <<>>
    /\ tasks = <<>>
    /\ sel = Idle
    /\ last = NoCall
    /\ quiet = TRUE
    /\ reg_order = <<>>
    /\ ice_removed = [fn \in Factories |-> 0]
    /\ \E stream_source \in LegacySources : legacy = [source |-> stream_source, result |-> {}]
    /\ offer = NoOffer
    /\ ws = NoRequest
    /\ views = <<>>
    /\ refreshes = <<>>

\* A call of the legacy provider's async_is_supported
async_is_supported ==
    /\ legacy.result = {}
    /\ legacy' = [legacy EXCEPT !.result = {legacy_is_supported(legacy.source)}]
    /\ UNCHANGED <<hass_data, slot, tokens, ice_tokens, tasks, sel, last, quiet,
                   reg_order, ice_removed, offer, ws, views, refreshes>>

NextLegacy == async_is_supported

SpecLegacy == InitLegacy /\ [][NextLegacy]_vars

\* One offer handled by the legacy provider, for every input
InitOffer ==
    /\ hass_data = [k \in {} |-> {}]
    /\ slot = CHOOSE f \in Permutations_(AllProviders) : TRUE
    /\ tokens = <<>>
    /\ ice_tokens = <<>>
    /\ tasks = <<>>
    /\ sel = Idle
    /\ last = NoCall
    /\ quiet = TRUE
    /\ reg_order = <<>>
    /\ ice_removed = [fn \in Factories |-> 0]
    /\ legacy = [source |-> <<>>, result |-> {}]
    /\ \E stream_source \in OfferSources, offer_sdp \in OfferSdps,
          entity_id \in EntityIds, fn \in FnOutcomes :
         offer = [NoOffer EXCEPT !.source = stream_source, !.offer_sdp = offer_sdp,
                                 !.entity_id = entity_id, !.fn = fn]
    /\ ws = NoRequest
    /\ views = <<>>
    /\ refreshes = <<>>

NextOffer ==
    \/ async_handle_web_rtc_offer
    \/ stream_source_returns
    \/ fn_returns

SpecOffer == InitOffer /\ [][NextOffer]_vars

\* One ws_get_config request, for every input
InitConfig ==
    /\ hass_data = [k \in {} |-> {}]
    /\ slot = CHOOSE f \in Permutations_(AllProviders) : TRUE
    /\ tokens = <<>>
    /\ ice_tokens = <<>>
    /\ tasks = <<>>
    /\ sel = Idle
    /\ last = NoCall
    /\ quiet = TRUE
    /\ reg_order = <<>>
    /\ ice_removed = [fn \in Factories |-> 0]
    /\ legacy = [source |-> <<>>, result |-> {}]
    /\ offer = NoOffer
    /\ \E id \in MessageIds, stream_type \in FrontendStreamTypes,
          configuration \in RTCConfigurations :
         ws = [NoRequest EXCEPT !.id = id, !.stream_type = stream_type,
                                !.configuration = configuration]
    /\ views = <<>>
    /\ refreshes = <<>>

NextConfig ==
    \/ ws_get_config
    \/ configuration_returns

SpecConfig == InitConfig /\ [][NextConfig]_vars

\* Room left under the bounds for a call that registers or schedules
ProviderRoom == Len(tokens) < MaxTokens /\ Len(tasks) < MaxTasks

IceRoom == Len(ice_tokens) < MaxIceTokens

JointRoom == Len(tokens) + Len(ice_tokens) < MaxJoint /\ Len(tasks) < MaxJointTasks

\* hass.data before the camera component is set up; only the slots of the generic
\* providers matter
InitBroadcast ==
    /\ hass_data = [k \in {} |-> {}]
    /\ slot \in { f \in Permutations_(AllProviders) :
                    \A provider \in LegacyProviders : f[provider] = Cardinality(AllProviders) }
    /\ tokens = <<>>
    /\ ice_tokens = <<>>
    /\ tasks = <<>>
    /\ sel = Idle
    /\ last = NoCall
    /\ quiet = TRUE
    /\ reg_order = <<>>
    /\ ice_removed = [fn \in Factories |-> 0]
    /\ legacy = [source |-> <<>>, result |-> {}]
    /\ offer = NoOffer
    /\ ws = NoRequest
    /\ views = <<>>
    /\ refreshes = <<>>

\* Room left under the bound for the refreshes a starting task creates
RefreshRoom ==
    Len(refreshes) + Cardinality(hass_data[CAMERA_DOMAIN].entities) <= MaxRefreshes

\* The provider registry, its broadcasts and the refreshes of one camera
NextBroadcast ==
    \/ async_setup({"camera.front"})
    \/ \E provider \in GenericProviders :
         ProviderRoom /\ async_register_webrtc_provider(provider)
    \/ \E t \in 1..Len(tokens) : Len(tasks) < MaxTasks /\ remove_provider(t)
    \/ \E i \in 1..Len(tasks) : RefreshRoom /\ start_refresh(i)
    \/ \E i \in 1..Len(tasks) : finish_refresh(i)
    \/ \E i \in 1..Len(tasks) : fail_refresh(i)
    \/ \E k \in 1..Len(refreshes) : async_refresh_providers(k)
    \/ \E k \in 1..Len(refreshes) : refresh_is_supported_returns(k)

SpecBroadcast == InitBroadcast /\ [][NextBroadcast]_vars

\* The same with two cameras, whose refreshes one asyncio.gather runs together
NextGather ==
    \/ async_setup({"camera.front", "camera.back"})
    \/ \E provider \in GenericProviders :
         ProviderRoom /\ async_register_webrtc_provider(provider)
    \/ \E t \in 1..Len(tokens) : Len(tasks) < MaxTasks /\ remove_provider(t)
    \/ \E i \in 1..Len(tasks) : RefreshRoom /\ start_refresh(i)
    \/ \E i \in 1..Len(tasks) : finish_refresh(i)
    \/ \E i \in 1..Len(tasks) : fail_refresh(i)
    \/ \E k \in 1..Len(refreshes) : async_refresh_providers(k)
    \/ \E k \in 1..Len(refreshes) : refresh_is_supported_returns(k)

SpecGather == InitBroadcast /\ [][NextGather]_vars

\* The provider registry, its broadcasts and a selection
NextProviders ==
    \/ async_setup({})
    \/ \E provider \in GenericProviders :
         ProviderRoom /\ async_register_webrtc_provider(provider)
    \/ \E provider_instance \in LegacyProviders :
         ProviderRoom /\ async_register_rtsp_to_web_rtc_provider(provider_instance)
    \/ \E t \in 1..Len(tokens) : Len(tasks) < MaxTasks /\ remove_provider(t)
    \/ \E i \in 1..Len(tasks) : start_refresh(i)
    \/ \E i \in 1..Len(tasks) : finish_refresh(i)
    \/ \E stream_source \in StreamSources : async_get_supported_providers(stream_source)
    \/ is_supported_returns

SpecProviders == Init /\ [][NextProviders]_vars

\* The ICE server registry
NextIce ==
    \/ async_setup({})
    \/ \E get_ice_server_fn \in Factories :
         IceRoom /\ register_ice_server(get_ice_server_fn)
    \/ \E t \in 1..Len(ice_tokens) : remove(t)

SpecIce == Init /\ [][NextIce]_vars

\* Both registries together
Next ==
    \/ async_setup({})
    \/ \E provider \in GenericProviders :
         JointRoom /\ async_register_webrtc_provider(provider)
    \/ \E provider_instance \in LegacyProviders :
         JointRoom /\ async_register_rtsp_to_web_rtc_provider(provider_instance)
    \/ \E t \in 1..Len(tokens) : Len(tasks) < MaxJointTasks /\ remove_provider(t)
    \/ \E i \in 1..Len(tasks) : start_refresh(i)
    \/ \E i \in 1..Len(tasks) : finish_refresh(i)
    \/ \E stream_source \in StreamSources : async_get_supported_providers(stream_source)
    \/ is_supported_returns
    \/ \E get_ice_server_fn \in Factories :
         JointRoom /\ register_ice_server(get_ice_server_fn)
    \/ \E t \in 1..Len(ice_tokens) : remove(t)

Spec == Init /\ [][Next]_vars

-----------------------------------------------------------------------------
(* Properties *)

Scheduled == [status |-> "scheduled", pending |-> {}]

Loaded == Has(hass_data, CAMERA_DOMAIN)

\* C1: after any sequence of provider registrations and token invocations, the
\* provider set holds exactly the providers registered and not unregistered since.
C1_RegisteredNotUnregistered == Providers = Range(reg_order)

\* C1 witness: a token was invoked on a provider in the set and another provider
\* is still registered.
C1_Witness ==
    /\ last.op = "remove_provider"
    /\ last.held
    /\ Providers # {}
    /\ Providers \cap last.provider = {}

\* C2: a selection that has returned lists the providers whose capability check
\* is true for its stream source, in the order they were registered.
C2_RegistrationOrder ==
    (sel.state = "returned" /\ sel.order = reg_order /\ sel.snapshot = Providers)
        => sel.result = SelectSeq(sel.order, LAMBDA q : is_supported(q, sel.source))

\* C3: a selection works on the provider set as it was when the selection
\* started: it never fails because the set changed meanwhile, it visits no
\* provider outside that set, and when it returns it has visited all of it.
C3_Snapshot ==
    /\ sel.state # "raised"
    /\ sel.visited \subseteq sel.snapshot
    /\ sel.state = "returned" => sel.visited = sel.snapshot

\* C4: when a registration's token is invoked right after the registration,
\* before any broadcast task has started, the provider is absent from the set
\* from then on, however the broadcast tasks run afterwards.
C4_UnregisterWins ==
    (last.op = "remove_provider" /\ last.immediate) => Providers \cap last.provider = {}

\* C4 witness: such a pair of calls on a provider, and both broadcasts have run
\* to their end since.
C4_Witness ==
    /\ last.op = "remove_provider"
    /\ last.immediate
    /\ last.held
    /\ ~quiet
    /\ tasks = <<>>

\* C5: every registration that returns a token schedules exactly one broadcast
\* task, and registering a provider the set already holds leaves the set as it
\* was, holding that provider.
C5_ReRegister ==
    [][\A provider \in AllProviders :
          tokens' = Append(tokens, provider)
            => /\ tasks' = Append(tasks, Scheduled)
               /\ provider \in Providers'
               /\ provider \in Providers => Providers' = Providers]_vars

\* C5 witness: the same provider registered twice in a row: one element, two
\* scheduled tasks.
C5_Witness ==
    /\ last.op = "async_register_webrtc_provider"
    /\ last.held
    /\ Len(tokens) = 2
    /\ tokens[1] = tokens[2]
    /\ Providers = {tokens[1]}
    /\ tasks = <<Scheduled, Scheduled>>

\* C6: while the camera component is not loaded, every call of the three
\* registration functions has raised the "camera not loaded" error (a ValueError
\* in the code) and nothing was created, added, scheduled or returned.
C6_NotLoaded ==
    ~Loaded =>
        /\ DOMAIN hass_data = {}
        /\ tokens = <<>>
        /\ ice_tokens = <<>>
        /\ tasks = <<>>
        /\ last.op # "none" => last.exc = "ValueError"

\* C6 witness: the legacy registration was called before the component loaded.
C6_Witness ==
    /\ ~Loaded
    /\ last.op = "async_register_rtsp_to_web_rtc_provider"
    /\ last.exc = "ValueError"

\* C7: invoking a token whose provider is not in the set raises nothing, leaves
\* the set as it was and schedules one broadcast task.
C7_DiscardAbsent ==
    [][\A t \in 1..Len(tokens) :
          (tokens[t] \notin Providers /\ remove_provider(t))
            => /\ last'.exc = "none"
               /\ Providers' = Providers
               /\ tasks' = Append(tasks, Scheduled)]_vars

\* C7 witness: a token was invoked with its provider absent.
C7_Witness ==
    /\ last.op = "remove_provider"
    /\ ~last.held
    /\ last.exc = "none"
    /\ tasks # <<>>
    /\ tasks[Len(tasks)] = Scheduled

\* C8: invoking an ICE remove token whose factory is not in the list raises
\* nothing.
C8_RemoveAbsentSilent ==
    (last.op = "remove" /\ ~last.held) => last.exc = "none"

\* a can be obtained from b by deleting entries
RECURSIVE IsSubsequence(_, _)
IsSubsequence(a, b) ==
    IF a = <<>> THEN TRUE
    ELSE IF b = <<>> THEN FALSE
    ELSE IF Head(a) = Head(b) THEN IsSubsequence(Tail(a), Tail(b))
    ELSE IsSubsequence(a, Tail(b))

Count(l, x) == Cardinality({ i \in 1..Len(l) : l[i] = x })

\* new is old with one entry equal to x deleted, or old itself if it has none
DeletesOne(old, new, x) ==
    IF \A i \in 1..Len(old) : old[i] # x
    THEN new = old
    ELSE \E i \in 1..Len(old) :
           /\ old[i] = x
           /\ new = [k \in 1..(Len(old) - 1) |-> IF k < i THEN old[k] ELSE old[k + 1]]

\* C9: the ICE factory list holds, in registration order, every factory as often
\* as it was registered less the times a remove token deleted it; a registration
\* appends at the end, and a remove token deletes one entry equal to its own
\* factory (none if there is none), leaving the others in their order.
C9_RegistrationOrder ==
    /\ [](/\ IsSubsequence(Servers, ice_tokens)
          /\ \A fn \in Factories :
               Count(Servers, fn) = Count(ice_tokens, fn) - ice_removed[fn])
    /\ [][/\ \A fn \in Factories :
               ice_tokens' = Append(ice_tokens, fn) => Servers' = Append(Servers, fn)
          /\ \A t \in 1..Len(ice_tokens) :
               remove(t) => DeletesOne(Servers, Servers', ice_tokens[t])]_vars

\* C9 witness: f, g, f were registered and a token of f was invoked.
C9_Witness ==
    /\ ice_tokens = <<"f", "g", "f">>
    /\ last.op = "remove"
    /\ last.factory = {"f"}
    /\ ice_removed["f"] = 1
    /\ Servers = <<"g", "f">>

\* s begins with the characters of prefix
BeginsWith(s, prefix) ==
    /\ Len(prefix) <= Len(s)
    /\ \A i \in 1..Len(prefix) : s[i] = prefix[i]

\* C10: the legacy provider's check is true exactly for the sources that begin
\* with exactly one of rtsp://, rtsps://, rtmp://, and so false for an http
\* source, for an upper-case RTSP:// source and for the empty string.
C10_LegacyPrefixes ==
    \A answer \in legacy.result :
        /\ answer <=> Cardinality({ prefix \in { <<"r","t","s","p",":","/","/">>,
                                                  <<"r","t","s","p","s",":","/","/">>,
                                                  <<"r","t","m","p",":","/","/">> } :
                                     BeginsWith(legacy.source, prefix) }) = 1
        /\ legacy.source \in { <<>>, <<"h","t","t","p",":","/","/","h">>,
                               <<"R","T","S","P",":","/","/","h">> } => ~answer

\* C10 witness: the check has answered for an upper-case source.
C10_Witness ==
    /\ legacy.source = <<"R","T","S","P",":","/","/","h">>
    /\ legacy.result = {FALSE}

\* C14: whenever a provider has two tokens outstanding, invoking either of them
\* takes the provider out of the set: registrations are not counted.
C14_NotCounted ==
    [][\A t \in 1..Len(tokens) :
          (remove_provider(t) /\ \E u \in 1..Len(tokens) : u # t /\ tokens[u] = tokens[t])
            => tokens[t] \notin Providers']_vars

\* C14 witness: a provider was registered twice, a token of it was invoked while
\* the set held it, and the set does not hold it now.
C14_Witness ==
    /\ Len(tokens) = 2
    /\ tokens[1] = tokens[2]
    /\ last.op = "remove_provider"
    /\ last.provider = {tokens[1]}
    /\ last.held
    /\ last.immediate
    /\ tokens[1] \notin Providers

\* C16: while a selection waits for one provider's capability check, the check
\* of every provider of the set has been started.
C16_ChecksInFlight ==
    (sel.state = "awaiting" /\ sel.snapshot = Providers) => sel.visited = sel.snapshot

\* A step of the selection coroutine
SelectionStep == sel' # sel

\* A step of register_ice_server or of its remove token
IceStep == ice_tokens' # ice_tokens \/ (last' # last /\ last'.op = "remove")

\* C19: a selection changes neither the provider set nor the keys of hass.data
\* nor the ICE factory list nor the tasks, and with no provider-set entry it
\* returns the empty list at once; register_ice_server and its remove token change
\* neither the provider set, nor whether it has an entry, nor the tasks.
C19_ReadOnly ==
    [][/\ SelectionStep
            => /\ hass_data' = hass_data
               /\ tasks' = tasks
               /\ ~Has(hass_data, DATA_WEBRTC_PROVIDERS)
                    => sel'.state = "returned" /\ sel'.result = <<>>
       /\ IceStep
            => /\ Has(hass_data', DATA_WEBRTC_PROVIDERS) = Has(hass_data, DATA_WEBRTC_PROVIDERS)
               /\ Providers' = Providers
               /\ tasks' = tasks]_vars

\* C19 witness: a selection has returned the empty list with no provider-set
\* entry in hass.data, while the ICE list holds a factory.
C19_Witness ==
    /\ sel.state = "returned"
    /\ sel.result = <<>>
    /\ ~Has(hass_data, DATA_WEBRTC_PROVIDERS)
    /\ Servers # <<>>

\* The call has invoked the wrapped function once, with the resolved stream
\* source, the offer and the camera's entity id, and ended as the function did
InvokedOnce ==
    /\ offer.calls = << <<offer.source, offer.offer_sdp, offer.entity_id>> >>
    /\ offer.pc = "done" => offer.outcome = {offer.fn}

\* The call has not invoked the wrapped function and returned None
NotInvoked ==
    /\ offer.calls = <<>>
    /\ offer.pc = "done" => offer.outcome = {[kind |-> "return", value |-> None]}

\* C11 as stated: once the stream source has resolved, the call never invokes the
\* wrapped function and returns None when the source is None, and otherwise
\* invokes it exactly once with (stream source, offer_sdp, entity id) and returns
\* or raises what it does.
C11_NoneOnly ==
    offer.pc \in {"fn", "done"} =>
        IF offer.source = None THEN NotInvoked ELSE InvokedOnce

\* C11 amended: the same, with the empty string treated as None is.
C11_FalsySource ==
    offer.pc \in {"fn", "done"} =>
        IF offer.source \in {None, {<<>>}} THEN NotInvoked ELSE InvokedOnce

\* C11 witness: a call whose stream source resolved to the empty string is done.
C11_Witness ==
    /\ offer.pc = "done"
    /\ offer.source = {<<>>}
    /\ offer.fn.kind = "raise"

\* C12: a ws_get_config request sends at most one response and, once done,
\* exactly one; for a camera whose frontend stream type is not WEB_RTC it is an
\* error with code web_rtc_offer_failed whose message carries that stream type,
\* and the configuration is never requested; otherwise it is the result holding
\* the serialized RTCConfiguration.
C12_OneResponse ==
    /\ Len(ws.sent) <= 1
    /\ ws.stream_type # WEB_RTC => ws.requests = 0
    /\ ws.pc = "done" =>
         /\ Len(ws.sent) = 1
         /\ ws.sent[1].id = ws.id
         /\ IF ws.stream_type # WEB_RTC
            THEN /\ ws.sent[1].type = "error"
                 /\ ws.sent[1].code = "web_rtc_offer_failed"
                 /\ ws.sent[1].message[2] = format(ws.stream_type)
            ELSE /\ ws.sent[1].type = "result"
                 /\ ws.sent[1].result = to_dict(ws.configuration)

\* C12 witness: a request for a camera streaming HLS is done.
C12_Witness ==
    /\ ws.pc = "done"
    /\ ws.stream_type = {"hls"}
    /\ Len(ws.sent) = 1

\* The result sent for a request
Result == ws.sent[1].result

\* C13: the serialized RTCConfiguration has no iceServers field when the ICE
\* server list is None or empty; otherwise iceServers holds the servers in order,
\* each with its urls, and with username and credential exactly when they are set.
C13_Serialization ==
    (ws.pc = "done" /\ ws.stream_type = WEB_RTC) =>
        IF ws.configuration.ice_servers \in { None, {<<>>} }
        THEN DOMAIN Result = {}
        ELSE LET servers == Value(ws.configuration.ice_servers) IN
             /\ DOMAIN Result = {"iceServers"}
             /\ DOMAIN Result.iceServers = 1..Len(servers)
             /\ \A i \in 1..Len(servers) :
                  LET d == Result.iceServers[i] IN
                  /\ "urls" \in DOMAIN d /\ d.urls = servers[i].urls
                  /\ "username" \in DOMAIN d <=> servers[i].username # None
                  /\ "credential" \in DOMAIN d <=> servers[i].credential # None
                  /\ "username" \in DOMAIN d => d.username = Value(servers[i].username)
                  /\ "credential" \in DOMAIN d => d.credential = Value(servers[i].credential)

\* A camera component with entities is set up
HasCameras == Loaded /\ hass_data[CAMERA_DOMAIN].entities # {}

\* C15: a registration that returns a token, and every invocation of a token,
\* ends with its set mutation applied and its broadcast task scheduled but not
\* started, no camera refresh having run within the call; and a step in which a
\* refresh is created, runs or completes is no registry call and leaves the
\* provider set alone, every refresh belonging to a task that had been started.
C15_FireAndForget ==
    [][/\ (tokens' # tokens \/ \E t \in 1..Len(tokens) : remove_provider(t))
            => /\ tasks' = Append(tasks, Scheduled)
               /\ refreshes' = refreshes
               /\ views' = views
               /\ tokens' # tokens => tokens'[Len(tokens')] \in Providers'
               /\ \A t \in 1..Len(tokens) : remove_provider(t) => tokens[t] \notin Providers'
       /\ (refreshes' # refreshes \/ (Loaded /\ views' # views))
            => /\ hass_data' = hass_data
               /\ tokens' = tokens
               /\ last' = last
               /\ \A k \in 1..Len(refreshes') :
                    LET i == refreshes'[k].task
                    IN  i # 0 => tasks'[i].status \in {"running", "failed"}]_vars

\* C15 witness: a registration has returned with cameras present, its task is not
\* started, and a refresh of an earlier broadcast waits for a capability check.
C15_Witness ==
    /\ HasCameras
    /\ last.op = "async_register_webrtc_provider"
    /\ last.exc = "none"
    /\ quiet
    /\ tasks[Len(tasks)] = Scheduled
    /\ \E k \in 1..Len(refreshes) : refreshes[k].frame.state = "awaiting"

\* C17: a running broadcast task waits for the refresh of every camera entity
\* that has not completed, those refreshes are held by the event loop together,
\* and no refresh is left running by a task that has completed.
C17_BroadcastCompletes ==
    /\ \A i \in 1..Len(tasks) :
         tasks[i].status = "running" =>
            /\ tasks[i].pending \subseteq hass_data[CAMERA_DOMAIN].entities
            /\ \A camera \in tasks[i].pending :
                 \E k \in 1..Len(refreshes) :
                    refreshes[k].camera = camera /\ refreshes[k].task = i
    /\ \A k \in 1..Len(refreshes) : refreshes[k].task \in 1..Len(tasks)

\* The providers of the set that support the camera's stream source
Supporting(camera) ==
    { provider \in Providers : is_supported(provider, camera_stream_source(camera)) }

\* C18: once every broadcast task and every refresh has completed, each camera's
\* recorded providers are those of the provider set that support its stream source.
C18_EventuallyConsistent ==
    (HasCameras /\ tasks = <<>> /\ refreshes = <<>>) =>
        \A camera \in DOMAIN views : Range(views[camera]) = Supporting(camera)

====
